---- MODULE Spec2Model ----
(***************************************************************************)
(* A model of the Meow protocol framework (STROBE over the KitTen          *)
(* permutation): src/src/meow.rs and src/src/kitten.rs.                    *)
(*                                                                         *)
(* A Meow instance is the record [state, pos, pos_begin, role, cur_flags]. *)
(* The private methods of Meow are operators on an execution context       *)
(*   [m, buf, log, panic]                                                  *)
(* where m is the instance (&mut self), buf the caller's mutable buffer    *)
(* (&mut [u8]), panic whether the call has aborted, and log a history of   *)
(* the byte steps and framing steps the call has made (log is not program  *)
(* state: it records the order in which the code touched the state).       *)
(***************************************************************************)
EXTENDS Integers, Sequences, FiniteSets, TLC

\* ---------------------------------------------------------------- bytes

\* f itself; the comparison has the function enumerated once, so that later
\* applications look its values up
Eval(f) == LET g == f IN IF g = g THEN g ELSE g

\* XOR and AND of two 4-bit values, bit by bit.
RECURSIVE BitOp(_, _, _, _)
BitOp(op, a, b, n) ==
    IF n = 0 THEN 0
    ELSE LET x == a % 2
             y == b % 2
             z == IF op = "xor" THEN (x + y) % 2 ELSE x * y
         IN  z + 2 * BitOp(op, a \div 2, b \div 2, n - 1)

Xor4 == Eval([a \in 0..15 |-> Eval([b \in 0..15 |-> BitOp("xor", a, b, 4)])])

And4 == Eval([a \in 0..15 |-> Eval([b \in 0..15 |-> BitOp("and", a, b, 4)])])

\* a ^ b on u8
XOR(a, b) == 16 * Xor4[a \div 16][b \div 16] + Xor4[a % 16][b % 16]

\* a & b on u8
AND(a, b) == 16 * And4[a \div 16][b \div 16] + And4[a % 16][b % 16]

\* u8 arithmetic keeps its width
U8(x) == x % 256

\* ------------------------------------------------------------ constants

STATE_SIZE_U64 == 25

STATE_SIZE_U8 == STATE_SIZE_U64 * 8

SECURITY_PARAM == 128

MEOW_R == U8(STATE_SIZE_U8 - ((2 * SECURITY_PARAM) \div 8) - 2)

\* b"Meow v0.1.0"
MEOW_CONTEXT == <<77, 101, 111, 119, 32, 118, 48, 46, 49, 46, 48>>

FLAG_I == 1

FLAG_A == 2

FLAG_C == 4

FLAG_T == 8

FLAG_M == 16

FLAG_K == 32

\* the number of rounds kitten asks of keccak_p
KITTEN_ROUNDS == 10

\* --------------------------------------------------------------- kitten

(***************************************************************************)
(* keccak::keccak_p is a function of the external keccak crate: a fixed    *)
(* bijection on [u64; 25].  Its code is not part of this repository.  The  *)
(* model stands a fixed bijection on 25 words in for it (a word is its 8   *)
(* bytes, least significant first): `rounds` rounds, each mixing one row   *)
(* of five words with the rows after it.  Nothing below relies on more     *)
(* than keccak_p being one fixed function of its argument.                 *)
(***************************************************************************)

\* Round r adds, to each byte of the five words of row r % 5, bytes of words
\* of the two rows after it: a bijection, the other rows being kept.
KeccakRound(A, r) ==
    LET y == r % 5
        up1 == 5 * ((y + 1) % 5)
        up2 == 5 * ((y + 2) % 5)
    IN  Eval([w \in 0..(STATE_SIZE_U64 - 1) |->
                IF w \div 5 = y
                THEN LET a == A[w]
                         b == A[up1 + (w % 5)]
                         c == A[up2 + ((w + 1) % 5)]
                     IN  [j \in 0..7 |->
                            U8(a[j] + 5 * b[(j + 3) % 8] + 3 * c[(j + 1) % 8] + 17 * r + w + j)]
                ELSE A[w]])

RECURSIVE keccak_p(_, _)
keccak_p(A, rounds) ==
    IF rounds = 0 THEN A
    ELSE LET B == KeccakRound(A, rounds)
         IN  IF B = B THEN keccak_p(B, rounds - 1) ELSE B

\* fn kitten
kitten(A) == keccak_p(A, KITTEN_ROUNDS)

\* u64::from_le of the 25 words of the buffer: word w is bytes 8w..8w+7,
\* least significant first, whatever the host's byte order.
from_le(st) ==
    Eval([w \in 0..(STATE_SIZE_U64 - 1) |-> [j \in 0..7 |-> st[8 * w + j]]])

\* u64::to_le: the words back into the buffer's bytes.
to_le(A) == Eval([i \in 0..(STATE_SIZE_U8 - 1) |-> A[i \div 8][i % 8]])

\* AlignedKittenState::permute
permute(st) ==
    LET words == from_le(st)
    IN  IF words = words THEN to_le(kitten(words)) ELSE st

\* ----------------------------------------------------------------- role

\* enum Role, by its #[repr(u8)] discriminant
RoleRepr == [Undecided |-> 2, Initiator |-> 0, Responder |-> 1]

Roles == {"Undecided", "Initiator", "Responder"}

\* impl From<u8> for Role
RoleFrom(x) == IF x = 0 THEN "Initiator" ELSE IF x = 1 THEN "Responder" ELSE "Undecided"

\* A faulty Role::to_flag, which is 0 for the Responder as well.
to_flag_unset(role) ==
    IF role \in {"Initiator", "Responder"} THEN 0 ELSE -1

\* Role::to_flag; -1 stands for the panic of the Undecided arm
to_flag(role) ==
    IF role = "Initiator" THEN 0 ELSE IF role = "Responder" THEN 1 ELSE -1

\* A faulty check_zero, which refuses a buffer with no bytes.
check_zero_some(data) ==
    IF Len(data) = 0 \/ \E i \in 1..Len(data) : data[i] # 0 THEN "Err" ELSE "Ok"

\* A faulty check_zero, which stops after the first byte.
check_zero_first(data) ==
    IF Len(data) = 0 \/ data[1] = 0 THEN "Ok" ELSE "Err"

\* fn check_zero: "Ok" when every byte is zero, "Err" (MacError) otherwise
check_zero(data) ==
    IF \A i \in 1..Len(data) : data[i] = 0 THEN "Ok" ELSE "Err"

\* ------------------------------------------------------ execution context

\* a call on instance m with the caller's buffer buf
Call(m, buf) == [m |-> m, buf |-> buf, log |-> <<>>, panic |-> FALSE, ret |-> "Unit"]

\* one byte step of primitive prim at state index idx, on I/O byte val
ByteEv(prim, idx, val) == [ev |-> "byte", prim |-> prim, idx |-> idx, val |-> val]

\* one framing step, entered with this pos and pos_begin and with the state
\* bytes `before`, and handing the bytes `padded` to permute
FEv(pos, pos_begin, before, padded) ==
    [ev |-> "F", prim |-> "run_f", idx |-> pos, val |-> pos_begin,
     before |-> before, padded |-> padded]

\* TRUE; asking for the fields of a context has the context computed
Computed(s) == DOMAIN s = DOMAIN s

\* begin_op entered with these caller flags and this `more`
BeginEv(flags, more) == [ev |-> "begin_op", flags |-> flags, more |-> more]

\* ------------------------------------------------------------ the duplex

\* the state bytes Meow::run_f hands to permute
padded(m) ==
    LET p  == m.pos
        s1 == [m.state EXCEPT ![p] = AND(@, m.pos_begin)]
        s2 == [s1 EXCEPT ![p + 1] = AND(@, 4)]
    IN  [s2 EXCEPT ![MEOW_R + 1] = XOR(@, 128)]

\* the framing step on the bytes pad
permuted(s, pad) ==
    [s EXCEPT !.m = [s.m EXCEPT !.state = permute(pad), !.pos = 0, !.pos_begin = 0],
              !.log = Append(@, FEv(s.m.pos, s.m.pos_begin, s.m.state, pad))]

\* A faulty run_f, which marks the last byte of the rate instead of the
\* byte after it.
run_f_pad_rate(s) ==
    permuted(s, [padded(s.m) EXCEPT ![MEOW_R + 1] = s.m.state[MEOW_R + 1],
                                    ![MEOW_R - 1] = XOR(@, 128)])

\* Meow::run_f
run_f(s) == permuted(s, padded(s.m))

\* A faulty advance_pos, which takes the whole state for the rate.
advance_pos_wide(s) ==
    LET s1 == [s EXCEPT !.m.pos = U8(@ + 1)]
    IN  IF s1.m.pos = STATE_SIZE_U8 - 2 THEN run_f(s1) ELSE s1

\* A faulty advance_pos, which lets the cursor reach the rate before framing.
advance_pos_late(s) ==
    LET s1 == [s EXCEPT !.m.pos = U8(@ + 1)]
    IN  IF s1.m.pos > MEOW_R THEN run_f(s1) ELSE s1

\* Meow::advance_pos
advance_pos(s) ==
    LET s1 == [s EXCEPT !.m.pos = U8(@ + 1)]
    IN  IF s1.m.pos = MEOW_R THEN run_f(s1) ELSE s1

\* The loops of the duplex primitives run their iterations lo..hi in order;
\* a range is split in two halves, the first half evaluated before the
\* second starts (Computed(left)), which keeps the evaluation shallow.

\* one iteration of the loop of Meow::absorb
absorb_step(s, b) ==
    advance_pos([s EXCEPT !.m.state[s.m.pos] = XOR(@, b),
                          !.log = Append(@, ByteEv("absorb", s.m.pos, b))])

RECURSIVE absorb_loop(_, _, _, _)
absorb_loop(s, data, lo, hi) ==
    IF lo > hi THEN s
    ELSE IF lo = hi THEN absorb_step(s, data[lo])
    ELSE LET mid == (lo + hi) \div 2
             left == absorb_loop(s, data, lo, mid)
         IN  IF Computed(left) THEN absorb_loop(left, data, mid + 1, hi) ELSE left

\* Meow::absorb
absorb(s, data) == IF s.panic THEN s ELSE absorb_loop(s, data, 1, Len(data))

\* one iteration of the loop of Meow::absorb_and_set, on buf[i]
absorb_and_set_step(s, i) ==
    LET p == s.m.pos
        c == XOR(s.m.state[p], s.buf[i])
    IN  advance_pos([s EXCEPT !.m.state[p] = c,
                              !.buf[i] = c,
                              !.log = Append(@, ByteEv("absorb_and_set", p, s.buf[i]))])

RECURSIVE absorb_and_set_loop(_, _, _)
absorb_and_set_loop(s, lo, hi) ==
    IF lo > hi THEN s
    ELSE IF lo = hi THEN absorb_and_set_step(s, lo)
    ELSE LET mid == (lo + hi) \div 2
             left == absorb_and_set_loop(s, lo, mid)
         IN  IF Computed(left) THEN absorb_and_set_loop(left, mid + 1, hi) ELSE left

\* Meow::absorb_and_set
absorb_and_set(s) == IF s.panic THEN s ELSE absorb_and_set_loop(s, 1, Len(s.buf))

\* one iteration of the loop of Meow::overwrite
overwrite_step(s, b) ==
    advance_pos([s EXCEPT !.m.state[s.m.pos] = b,
                          !.log = Append(@, ByteEv("overwrite", s.m.pos, b))])

RECURSIVE overwrite_loop(_, _, _, _)
overwrite_loop(s, data, lo, hi) ==
    IF lo > hi THEN s
    ELSE IF lo = hi THEN overwrite_step(s, data[lo])
    ELSE LET mid == (lo + hi) \div 2
             left == overwrite_loop(s, data, lo, mid)
         IN  IF Computed(left) THEN overwrite_loop(left, data, mid + 1, hi) ELSE left

\* Meow::overwrite
overwrite(s, data) == IF s.panic THEN s ELSE overwrite_loop(s, data, 1, Len(data))

\* one iteration of the loop of Meow::zero_out
zero_out_step(s) ==
    advance_pos([s EXCEPT !.m.state[s.m.pos] = 0,
                          !.log = Append(@, ByteEv("zero_out", s.m.pos, 0))])

RECURSIVE zero_out_loop(_, _, _)
zero_out_loop(s, lo, hi) ==
    IF lo > hi THEN s
    ELSE IF lo = hi THEN zero_out_step(s)
    ELSE LET mid == (lo + hi) \div 2
             left == zero_out_loop(s, lo, mid)
         IN  IF Computed(left) THEN zero_out_loop(left, mid + 1, hi) ELSE left

\* Meow::zero_out
zero_out(s, len) == IF s.panic THEN s ELSE zero_out_loop(s, 1, len)

\* A faulty exchange loop body, which hands out the state byte as it is.
exchange_step_copy(s, i) ==
    LET p == s.m.pos
        c == s.buf[i]
    IN  advance_pos([s EXCEPT !.buf[i] = s.m.state[p],
                              !.m.state[p] = c,
                              !.log = Append(@, ByteEv("exchange", p, c))])

\* A faulty exchange loop body, which xors the input byte into the state.
exchange_step_absorb(s, i) ==
    LET p == s.m.pos
        b == XOR(s.buf[i], s.m.state[p])
    IN  advance_pos([s EXCEPT !.buf[i] = b,
                              !.m.state[p] = XOR(@, s.buf[i]),
                              !.log = Append(@, ByteEv("exchange", p, s.buf[i]))])

\* one iteration of the loop of Meow::exchange, on buf[i]
exchange_step(s, i) ==
    LET p == s.m.pos
        b == XOR(s.buf[i], s.m.state[p])
    IN  advance_pos([s EXCEPT !.buf[i] = b,
                              !.m.state[p] = XOR(@, b),
                              !.log = Append(@, ByteEv("exchange", p, s.buf[i]))])

RECURSIVE exchange_loop(_, _, _)
exchange_loop(s, lo, hi) ==
    IF lo > hi THEN s
    ELSE IF lo = hi THEN exchange_step(s, lo)
    ELSE LET mid == (lo + hi) \div 2
             left == exchange_loop(s, lo, mid)
         IN  IF Computed(left) THEN exchange_loop(left, mid + 1, hi) ELSE left

\* Meow::exchange
exchange(s) == IF s.panic THEN s ELSE exchange_loop(s, 1, Len(s.buf))

\* A faulty copy loop body, which reads the byte after the cursor.
copy_step_next(s, i) ==
    LET p == s.m.pos
    IN  advance_pos([s EXCEPT !.buf[i] = s.m.state[p + 1],
                              !.log = Append(@, ByteEv("copy", p, s.buf[i]))])

\* one iteration of the loop of Meow::copy, on buf[i]
copy_step(s, i) ==
    LET p == s.m.pos
    IN  advance_pos([s EXCEPT !.buf[i] = s.m.state[p],
                              !.log = Append(@, ByteEv("copy", p, s.buf[i]))])

RECURSIVE copy_loop(_, _, _)
copy_loop(s, lo, hi) ==
    IF lo > hi THEN s
    ELSE IF lo = hi THEN copy_step(s, lo)
    ELSE LET mid == (lo + hi) \div 2
             left == copy_loop(s, lo, mid)
         IN  IF Computed(left) THEN copy_loop(left, mid + 1, hi) ELSE left

\* Meow::copy
copy(s) == IF s.panic THEN s ELSE copy_loop(s, 1, Len(s.buf))

\* A faulty squeeze loop body, which leaves the state byte as it is.
squeeze_step_keep(s, i) ==
    LET p == s.m.pos
    IN  advance_pos([s EXCEPT !.buf[i] = s.m.state[p],
                              !.log = Append(@, ByteEv("squeeze", p, s.buf[i]))])

\* one iteration of the loop of Meow::squeeze, on buf[i]
squeeze_step(s, i) ==
    LET p == s.m.pos
    IN  advance_pos([s EXCEPT !.buf[i] = s.m.state[p],
                              !.m.state[p] = 0,
                              !.log = Append(@, ByteEv("squeeze", p, s.buf[i]))])

RECURSIVE squeeze_loop(_, _, _)
squeeze_loop(s, lo, hi) ==
    IF lo > hi THEN s
    ELSE IF lo = hi THEN squeeze_step(s, lo)
    ELSE LET mid == (lo + hi) \div 2
             left == squeeze_loop(s, lo, mid)
         IN  IF Computed(left) THEN squeeze_loop(left, mid + 1, hi) ELSE left

\* Meow::squeeze
squeeze(s) == IF s.panic THEN s ELSE squeeze_loop(s, 1, Len(s.buf))

\* ------------------------------------------------------------- begin_op

\* A faulty role decision, taken again at every transport operation.
decide_role_always(s, flags) ==
    IF AND(flags, FLAG_T) # 0
    THEN [s EXCEPT !.m.role = RoleFrom(AND(flags, FLAG_I))]
    ELSE s

\* Meow::begin_op, the role: decided by a transport operation while Undecided
decide_role(s, flags) ==
    IF AND(flags, FLAG_T) # 0 /\ s.m.role = "Undecided"
    THEN [s EXCEPT !.m.role = RoleFrom(AND(flags, FLAG_I))]
    ELSE s

\* A faulty flag adjustment, which frames the caller's flags whatever the role.
adjust_flags_plain(s, flags) == flags

\* Meow::begin_op, the flags that are absorbed: for a transport operation
\* the caller's flags xor role.to_flag()
adjust_flags(s, flags) ==
    IF AND(flags, FLAG_T) # 0 THEN XOR(flags, to_flag(s.m.role)) ELSE flags

\* A faulty end of begin_op, which frames whatever the cursor.
force_f_always(s, flags) ==
    IF AND(flags, FLAG_C + FLAG_K) # 0 THEN run_f(s) ELSE s

\* Meow::begin_op, its end: run_f if the Cipher or Key flag is set and pos # 0
force_f(s, flags) ==
    IF AND(flags, FLAG_C + FLAG_K) # 0 /\ s.m.pos # 0 THEN run_f(s) ELSE s

\* A faulty framing, which marks the frame at the cursor itself.
frame_begin_at_pos(s, old_begin, flags) ==
    force_f(absorb([s EXCEPT !.m.pos_begin = s.m.pos], <<old_begin, flags>>), flags)

\* A faulty framing, which absorbs the flags before the old pos_begin.
frame_flags_first(s, old_begin, flags) ==
    force_f(absorb([s EXCEPT !.m.pos_begin = U8(s.m.pos + 1)], <<flags, old_begin>>), flags)

\* Meow::begin_op: pos_begin = pos + 1, absorb(&[old_begin, flags]), force_f
frame(s, old_begin, flags) ==
    force_f(absorb([s EXCEPT !.m.pos_begin = U8(s.m.pos + 1)], <<old_begin, flags>>), flags)

\* Meow::begin_op once the role is decided; to_flag panics on Undecided
framed(s, flags) ==
    IF AND(flags, FLAG_T) # 0 /\ to_flag(s.m.role) = -1
    THEN [s EXCEPT !.panic = TRUE]
    ELSE frame(s, s.m.pos_begin, adjust_flags(s, flags))

\* A faulty begin_op body, which converts the role before it decides it.
begin_new_op_convert_first(s, flags) ==
    decide_role(framed([s EXCEPT !.m.cur_flags = flags], flags), flags)

\* A faulty begin_op body, which latches the flags as they are absorbed.
begin_new_op_latch_adjusted(s, flags) ==
    LET d == decide_role(s, flags)
    IN  framed([d EXCEPT !.m.cur_flags = adjust_flags(d, flags)], flags)

\* the part of Meow::begin_op after the continuation check
begin_new_op(s, flags) ==
    framed(decide_role([s EXCEPT !.m.cur_flags = flags], flags), flags)

\* A faulty begin_op, which frames a continuation like a new operation.
begin_op_reframe(s0, flags, more) ==
    LET s == [s0 EXCEPT !.log = Append(@, BeginEv(flags, more))]
    IN  IF more /\ s.m.cur_flags # flags THEN [s EXCEPT !.panic = TRUE]
        ELSE begin_new_op(s, flags)

\* A faulty begin_op, which latches the flags before it compares them.
begin_op_latch_first(s0, flags, more) ==
    LET s == [s0 EXCEPT !.log = Append(@, BeginEv(flags, more)), !.m.cur_flags = flags]
    IN  IF more
        THEN IF s.m.cur_flags # flags THEN [s EXCEPT !.panic = TRUE] ELSE s
        ELSE begin_new_op(s, flags)

\* A faulty begin_op, which marks a new frame when an operation continues.
begin_op_remark(s0, flags, more) ==
    LET s == [s0 EXCEPT !.log = Append(@, BeginEv(flags, more))]
    IN  IF more
        THEN IF s.m.cur_flags # flags THEN [s EXCEPT !.panic = TRUE]
             ELSE [s EXCEPT !.m.pos_begin = U8(s.m.pos + 1)]
        ELSE begin_new_op(s, flags)

\* A faulty begin_op, which aborts when asked for the Keytree flag.
begin_op_keytree_fatal(s0, flags, more) ==
    LET s == [s0 EXCEPT !.log = Append(@, BeginEv(flags, more))]
    IN  IF AND(flags, FLAG_K) # 0 THEN [s EXCEPT !.panic = TRUE]
        ELSE IF more
        THEN IF s.m.cur_flags # flags THEN [s EXCEPT !.panic = TRUE] ELSE s
        ELSE begin_new_op(s, flags)

\* Meow::begin_op
begin_op(s0, flags, more) ==
    LET s == [s0 EXCEPT !.log = Append(@, BeginEv(flags, more))]
    IN  IF more
        THEN IF s.m.cur_flags # flags THEN [s EXCEPT !.panic = TRUE] ELSE s
        ELSE begin_new_op(s, flags)

\* ---------------------------------------------------- public operations
\* Each takes the instance and the call's arguments and yields the context
\* the call ends in: the instance after it, the caller's buffer, whether it
\* panicked, and what it returned.

\* Meow::ad
ad(m, data, more) ==
    absorb(begin_op(Call(m, data), FLAG_A, more), data)

\* Meow::meta_ad
meta_ad(m, data, more) ==
    absorb(begin_op(Call(m, data), FLAG_M + FLAG_A, more), data)

\* Meow::key
key(m, data, more) ==
    overwrite(begin_op(Call(m, data), FLAG_A + FLAG_C, more), data)

\* Meow::send_clr
send_clr(m, data, more) ==
    absorb(begin_op(Call(m, data), FLAG_A + FLAG_T, more), data)

\* Meow::meta_send_clr
meta_send_clr(m, data, more) ==
    absorb(begin_op(Call(m, data), FLAG_M + FLAG_A + FLAG_T, more), data)

\* Meow::recv_clr
recv_clr(m, data, more) ==
    absorb(begin_op(Call(m, data), FLAG_I + FLAG_A + FLAG_T, more), data)

\* Meow::meta_recv_clr
meta_recv_clr(m, data, more) ==
    absorb(begin_op(Call(m, data), FLAG_M + FLAG_I + FLAG_A + FLAG_T, more), data)

\* Meow::send_enc
send_enc(m, data, more) ==
    absorb_and_set(begin_op(Call(m, data), FLAG_A + FLAG_C + FLAG_T, more))

\* Meow::meta_send_enc
meta_send_enc(m, data, more) ==
    absorb_and_set(begin_op(Call(m, data), FLAG_M + FLAG_A + FLAG_C + FLAG_T, more))

\* Meow::recv_enc
recv_enc(m, data, more) ==
    exchange(begin_op(Call(m, data), FLAG_I + FLAG_A + FLAG_C + FLAG_T, more))

\* Meow::meta_recv_enc
meta_recv_enc(m, data, more) ==
    exchange(begin_op(Call(m, data), FLAG_M + FLAG_I + FLAG_A + FLAG_C + FLAG_T, more))

\* Meow::send_mac
send_mac(m, data) ==
    copy(begin_op(Call(m, data), FLAG_C + FLAG_T, FALSE))

\* Meow::meta_send_mac
meta_send_mac(m, data) ==
    copy(begin_op(Call(m, data), FLAG_M + FLAG_C + FLAG_T, FALSE))

\* A faulty end of recv_mac, which aborts on a tag that does not verify.
check_mac_panics(s) ==
    IF s.panic THEN s
    ELSE IF check_zero(s.buf) = "Err" THEN [s EXCEPT !.panic = TRUE]
    ELSE [s EXCEPT !.ret = "Ok"]

\* the end of recv_mac and meta_recv_mac: check_zero on the exchanged tag
check_mac(s) == IF s.panic THEN s ELSE [s EXCEPT !.ret = check_zero(s.buf)]

\* A faulty recv_mac, which restores the instance when the tag is refused.
recv_mac_restored(m, data) ==
    IF check_mac(exchange(begin_op(Call(m, data), FLAG_I + FLAG_C + FLAG_T, FALSE))).ret = "Err"
    THEN [check_mac(exchange(begin_op(Call(m, data), FLAG_I + FLAG_C + FLAG_T, FALSE)))
            EXCEPT !.m = m]
    ELSE check_mac(exchange(begin_op(Call(m, data), FLAG_I + FLAG_C + FLAG_T, FALSE)))

\* Meow::recv_mac
recv_mac(m, data) ==
    check_mac(exchange(begin_op(Call(m, data), FLAG_I + FLAG_C + FLAG_T, FALSE)))

\* Meow::meta_recv_mac
meta_recv_mac(m, data) ==
    check_mac(exchange(begin_op(Call(m, data), FLAG_M + FLAG_I + FLAG_C + FLAG_T, FALSE)))

\* Meow::prf
prf(m, data, more) ==
    squeeze(begin_op(Call(m, data), FLAG_I + FLAG_A + FLAG_C, more))

\* Meow::ratchet_many
ratchet_many(m, len, more) ==
    zero_out(begin_op(Call(m, <<>>), FLAG_C, more), len)

\* Meow::ratchet
ratchet(m) == ratchet_many(m, SECURITY_PARAM \div 8, FALSE)

\* the state Meow::new permutes: the header, the context string, zeros
InitialBlock ==
    LET hdr == <<1, U8(MEOW_R + 2), 1, 0, 1, 96>>
    IN  Eval([i \in 0..(STATE_SIZE_U8 - 1) |->
                IF i < 6 THEN hdr[i + 1]
                ELSE IF i < 6 + Len(MEOW_CONTEXT) THEN MEOW_CONTEXT[i - 5]
                ELSE 0])

\* A faulty new, which absorbs the protocol string as plain associated data.
new_ad(protocol) ==
    ad([state |-> permute(InitialBlock), pos |-> 0, pos_begin |-> 0,
        role |-> "Undecided", cur_flags |-> 0],
       protocol, FALSE)

\* Meow::new
new(protocol) ==
    meta_ad([state |-> permute(InitialBlock), pos |-> 0, pos_begin |-> 0,
             role |-> "Undecided", cur_flags |-> 0],
            protocol, FALSE)

\* A faulty clone, which copies the state bytes and rewinds the cursor.
clone_rewound(m) ==
    [state |-> m.state, pos |-> 0, pos_begin |-> 0, role |-> m.role,
     cur_flags |-> m.cur_flags]

\* #[derive(Clone)] on Meow: every field is cloned
clone(m) ==
    [state |-> m.state, pos |-> m.pos, pos_begin |-> m.pos_begin, role |-> m.role,
     cur_flags |-> m.cur_flags]

\* ------------------------------------------------------------- the model

\* calls made on an instance after new()
MaxOps == 2

VARIABLES
    meow,      \* the instance
    buf,       \* the caller's buffer as the last call on meow left it
    ret,       \* what that call returned: "Unit", "Ok" or "Err"
    status,    \* "ok", or "panic" once a call has aborted
    log,       \* the steps of the last call on meow, in order
    last,      \* the last call or command: its name and its arguments
    nops,      \* calls (or commands) made since new()
    peer,      \* a second instance: the other party, or a clone
    pbuf,      \* the caller's buffer as the last call on peer left it
    pret,      \* what the last call on peer returned
    commands,  \* the transcript two parties have run: protocol and commands
    out,       \* the PRF output those commands have produced
    other      \* a second run of two parties, with its commands and output

vars == <<meow, buf, ret, status, log, last, nops, peer, pbuf, pret, commands, out, other>>

peerVars == <<peer, pbuf, pret>>

runVars == <<commands, out, other>>

\* no second instance
NoInstance == [state |-> <<>>, pos |-> 0, pos_begin |-> 0, role |-> "None", cur_flags |-> 0]

\* n bytes b
Fill(b, n) == SubSeq([i \in 1..n |-> b], 1, n)

\* Protocol labels.  new() leaves the cursor at len + 2, here 2 bytes before
\* the rate boundary: the header of the next operation ends on the boundary,
\* and after one more byte of label it straddles the boundary.
Labels == {Fill(76, MEOW_R - 4)}

Empty == <<>>

One == <<204>>

Short == <<170, 187>>

\* one byte more than the rate: a cipher operation starts at pos 0, so this
\* payload crosses the rate boundary
Long == Fill(255, MEOW_R + 1)

\* payloads of ad
AdPayloads == {Empty, Short}

\* payloads of meta_ad, which can continue the meta_ad of new()
MetaAdPayloads == {One, Short}

\* payloads of the clear-text operations and of the other meta variants
Payloads == {Short}

\* payloads of the operations with the Cipher flag
CipherPayloads == {Short, Long}

LongPayloads == {Long}

LongLens == {MEOW_R + 1}

\* the lengths ratchet_many is asked for
RatchetLens == {1, MEOW_R + 1}

\* the calls made: a long payload starts an operation, a short one starts or
\* continues one
Calls(payloads, long) == ((payloads \ long) \X BOOLEAN) \cup (long \X {FALSE})

\* the state after a call on meow that ended in context s
Done(name, arg, more, s) ==
    /\ status = "ok"
    /\ nops < MaxOps
    /\ meow' = s.m
    /\ buf' = s.buf
    /\ ret' = s.ret
    /\ status' = IF s.panic THEN "panic" ELSE "ok"
    /\ log' = s.log
    /\ last' = [op |-> name, arg |-> arg, more |-> more]
    /\ nops' = nops + 1
    /\ UNCHANGED <<peerVars, runVars>>

\* no second run
NoRun ==
    [m0 |-> NoInstance, m1 |-> NoInstance,
     commands |-> [protocol |-> <<>>, commands |-> <<>>], out |-> <<>>]

\* struct Commands at the start of a run
Commands(protocol) == [protocol |-> protocol, commands |-> <<>>]

\* the result of no call
NoCall == [m |-> NoInstance, buf |-> <<>>, ret |-> "Unit"]

\* the state after new(protocol) ended in context s, with p for the second
\* instance and run for the second run
InitWith(protocol, s, p, run) ==
    /\ meow = s.m
    /\ buf = s.buf
    /\ ret = s.ret
    /\ status = "ok"
    /\ log = s.log
    /\ last = [op |-> "new", arg |-> protocol, more |-> FALSE]
    /\ nops = 0
    /\ peer = p.m
    /\ pbuf = p.buf
    /\ pret = p.ret
    /\ commands = Commands(protocol)
    /\ out = <<>>
    /\ other = run

Init == \E protocol \in Labels : InitWith(protocol, new(protocol), NoCall, NoRun)

Ad ==
    \E c \in Calls(AdPayloads, LongPayloads) : Done("ad", c[1], c[2], ad(meow, c[1], c[2]))

MetaAd ==
    \E c \in Calls(MetaAdPayloads, LongPayloads) : Done("meta_ad", c[1], c[2], meta_ad(meow, c[1], c[2]))

Key ==
    \E c \in Calls(CipherPayloads, LongPayloads) : Done("key", c[1], c[2], key(meow, c[1], c[2]))

SendClr ==
    \E c \in Calls(Payloads, LongPayloads) : Done("send_clr", c[1], c[2], send_clr(meow, c[1], c[2]))

MetaSendClr ==
    \E c \in Calls(Payloads, LongPayloads) : Done("meta_send_clr", c[1], c[2], meta_send_clr(meow, c[1], c[2]))

RecvClr ==
    \E c \in Calls(Payloads, LongPayloads) : Done("recv_clr", c[1], c[2], recv_clr(meow, c[1], c[2]))

MetaRecvClr ==
    \E c \in Calls(Payloads, LongPayloads) : Done("meta_recv_clr", c[1], c[2], meta_recv_clr(meow, c[1], c[2]))

SendEnc ==
    \E c \in Calls(CipherPayloads, LongPayloads) : Done("send_enc", c[1], c[2], send_enc(meow, c[1], c[2]))

MetaSendEnc ==
    \E c \in Calls(Payloads, LongPayloads) : Done("meta_send_enc", c[1], c[2], meta_send_enc(meow, c[1], c[2]))

RecvEnc ==
    \E c \in Calls(CipherPayloads, LongPayloads) : Done("recv_enc", c[1], c[2], recv_enc(meow, c[1], c[2]))

MetaRecvEnc ==
    \E c \in Calls(Payloads, LongPayloads) : Done("meta_recv_enc", c[1], c[2], meta_recv_enc(meow, c[1], c[2]))

SendMac == \E d \in CipherPayloads : Done("send_mac", d, FALSE, send_mac(meow, d))

MetaSendMac == \E d \in Payloads : Done("meta_send_mac", d, FALSE, meta_send_mac(meow, d))

RecvMac == \E d \in Payloads : Done("recv_mac", d, FALSE, recv_mac(meow, d))

MetaRecvMac == \E d \in Payloads : Done("meta_recv_mac", d, FALSE, meta_recv_mac(meow, d))

Prf ==
    \E c \in Calls(CipherPayloads, LongPayloads) : Done("prf", c[1], c[2], prf(meow, c[1], c[2]))

Ratchet == Done("ratchet", SECURITY_PARAM \div 8, FALSE, ratchet(meow))

RatchetMany ==
    \E c \in Calls(RatchetLens, LongLens) : Done("ratchet_many", c[1], c[2], ratchet_many(meow, c[1], c[2]))

Next ==
    \/ Ad \/ MetaAd \/ Key
    \/ SendClr \/ MetaSendClr \/ RecvClr \/ MetaRecvClr
    \/ SendEnc \/ MetaSendEnc \/ RecvEnc \/ MetaRecvEnc
    \/ SendMac \/ MetaSendMac \/ RecvMac \/ MetaRecvMac
    \/ Prf \/ Ratchet \/ RatchetMany

Spec == Init /\ [][Next]_vars

\* ------------------------------------------------- properties of Spec
\* (one instance, every public operation)

\* the begin_op step of the call that led to the next state
Begun == log'[1]

\* how one call treats the role
RoleStep ==
    /\ meow.role # "Undecided" => meow'.role = meow.role
    /\ meow'.role # meow.role =>
            /\ ~Begun.more
            /\ AND(Begun.flags, FLAG_T) # 0
            /\ meow'.role = IF AND(Begun.flags, FLAG_I) # 0 THEN "Responder" ELSE "Initiator"
    /\ (meow.role = "Undecided" /\ ~Begun.more /\ AND(Begun.flags, FLAG_T) # 0) =>
            meow'.role # "Undecided"

\* C8: the role starts Undecided; it changes only in a non-continuing call
\* with the Transport flag made while it is Undecided, to Responder if that
\* call has the Inbound flag and to Initiator otherwise; once decided it
\* never changes, and a call without the Transport flag never changes it.
RoleDecidedOnce == (meow.role = "Undecided") /\ [][RoleStep]_vars

\* an Initiator has since started a receiving operation and is still Initiator
RoleKeptAcrossInbound ==
    /\ status = "ok"
    /\ nops = 2
    /\ meow.role = "Initiator"
    /\ log[1].more = FALSE
    /\ AND(log[1].flags, FLAG_T) # 0
    /\ AND(log[1].flags, FLAG_I) # 0

\* the byte and framing steps of the last call
Steps == {k \in 1..Len(log) : log[k].ev # "begin_op"}

\* C9: after every call, and at every byte a duplex primitive touches,
\* 0 <= pos < MEOW_R; a byte touched at MEOW_R - 1 is followed at once by
\* the framing step, after which pos and pos_begin are 0.
CursorInvariant ==
    /\ meow.pos >= 0 /\ meow.pos < MEOW_R
    /\ \A k \in Steps :
        /\ log[k].ev = "byte" =>
                /\ log[k].idx >= 0 /\ log[k].idx < MEOW_R
                /\ log[k].idx = MEOW_R - 1 =>
                        k < Len(log) /\ log[k + 1].ev = "F" /\ log[k + 1].idx = MEOW_R
        /\ log[k].ev = "F" =>
                /\ log[k].idx <= MEOW_R
                /\ IF k < Len(log)
                   THEN log[k + 1].ev = "byte" /\ log[k + 1].idx = 0
                   ELSE meow.pos = 0 /\ meow.pos_begin = 0

\* a call has touched the last byte of the rate and gone on at byte 0
CursorWrapped ==
    \E k \in Steps :
        /\ k + 2 <= Len(log)
        /\ log[k].ev = "byte" /\ log[k].idx = MEOW_R - 1
        /\ log[k + 2].ev = "byte" /\ log[k + 2].idx = 0

\* how a call that continues with other flags than the latched ones ends
MismatchStep ==
    (Begun.more /\ Begun.flags # meow.cur_flags) =>
        /\ status' = "panic"
        /\ meow' = meow
        /\ last'.op # "ratchet_many" => buf' = last'.arg

\* C10: a call with more = TRUE whose flags differ from the latched flags
\* panics, and leaves every field of the instance and the caller's buffer as
\* they were.
ContinuationMismatchIsFatal == [][MismatchStep]_vars

\* a continuation with other flags has panicked
MismatchPanicked ==
    /\ status = "panic"
    /\ last.more
    /\ log[1].flags # meow.cur_flags

\* the indices at which the state bytes a and b differ
Changed(a, b) == {i \in 0..(STATE_SIZE_U8 - 1) : a[i] # b[i]}

\* the framing steps among the steps of lg
Framings(lg) == {k \in 1..Len(lg) : lg[k].ev = "F"}

\* the last framing step of lg before step k, 0 if there is none
FramingBefore(lg, k) ==
    LET before == {j \in Framings(lg) : j < k}
    IN  IF before = {} THEN 0 ELSE CHOOSE j \in before : \A i \in before : i <= j

\* the state bytes after step k of lg, k being 0 (none: from) or a framing step
StateAfter(lg, from, k) == IF k = 0 THEN from ELSE permute(lg[k].padded)

\* the state indices the byte steps of lg strictly between j and k touched
Touched(lg, j, k) == {lg[i].idx : i \in {i \in (j + 1)..(k - 1) : lg[i].ev = "byte"}}

\* the steps lg of a call that took the state bytes from `from` to `to`:
\* byte steps are at indices of the rate, a framing step changes at most
\* the bytes at pos, pos + 1 and 167 before it permutes, setting byte 167 apart,
\* and between framing steps only the bytes of the byte steps change
Isolated(lg, from, to) ==
    /\ \A k \in 1..Len(lg) :
            /\ lg[k].ev = "byte" => lg[k].idx \in 0..165
            /\ lg[k].ev = "F" =>
                    /\ Changed(lg[k].before, lg[k].padded) \subseteq {lg[k].idx, lg[k].idx + 1, 167}
                    /\ lg[k].idx + 1 # 167 => lg[k].padded[167] = XOR(lg[k].before[167], 128)
                    /\ Changed(StateAfter(lg, from, FramingBefore(lg, k)), lg[k].before)
                            \subseteq Touched(lg, FramingBefore(lg, k), k)
    /\ Changed(StateAfter(lg, from, FramingBefore(lg, Len(lg) + 1)), to)
            \subseteq Touched(lg, FramingBefore(lg, Len(lg) + 1), Len(lg) + 1)

\* C14: the duplex primitives read and write state bytes at indices 0..165
\* only; the only other writes outside the permutation are those of the
\* framing step, which changes the bytes at pos, pos + 1 and 167 and no other
\* byte before it permutes.
CapacityIsolation == [][Isolated(log', meow.state, meow'.state)]_vars

\* one call has framed in the middle of the rate, for its Cipher flag, and
\* again at the rate boundary
FramedTwice ==
    /\ status = "ok"
    /\ \E k \in Framings(log) : log[k].idx = 166
    /\ \E k \in Framings(log) : log[k].idx \in 1..164 /\ log[k].val # 0

\* C15: Role::to_flag is only ever reached with the role Initiator or
\* Responder: every non-continuing call with the Transport flag ends with
\* the role decided and without a panic, and a call panics only when it
\* continues with other flags.
UndecidedNeverConverted ==
    /\ (~log[1].more /\ AND(log[1].flags, FLAG_T) # 0) =>
            status = "ok" /\ to_flag(meow.role) \in {0, 1}
    /\ status = "panic" => log[1].more

\* the first call on a new instance was a receiving one: it decided the role
\* and converted it
FirstCallConverted ==
    /\ nops = 1
    /\ status = "ok"
    /\ AND(log[1].flags, FLAG_T) # 0
    /\ AND(log[1].flags, FLAG_I) # 0
    /\ meow.role = "Responder"
    /\ log[3] = ByteEv("absorb", MEOW_R - 1, XOR(log[1].flags, 1))

\* the exchange steps among the steps of lg
ExchangeSteps(lg) == {k \in 1..Len(lg) : lg[k].ev = "byte" /\ lg[k].prim = "exchange"}

\* the index in the caller's buffer of the byte that step k of the exchange
\* steps xs works on
BufIndex(xs, k) == Cardinality({j \in xs : j <= k})

\* the first of the framing steps fs after step k, 0 if there is none
FramingAfter(fs, k) ==
    LET after == {j \in fs : j > k}
    IN  IF after = {} THEN 0 ELSE CHOOSE j \in after : \A i \in after : j <= i

\* the exchange steps xs of lg after step j (0, or a framing step) and before
\* the next framing step n (0 if there is none) found the state bytes pre, no
\* index being touched twice between framing steps; each left the I/O byte
\* res and the state byte st, given the state byte it found and its input byte
ExchangedSince(lg, xs, j, n, pre, to, io, res(_, _), st(_, _)) ==
    \A k \in {k \in xs : j < k /\ (n = 0 \/ k < n)} :
        /\ io[BufIndex(xs, k)] = res(pre[lg[k].idx], lg[k].val)
        /\ (IF n = 0 THEN to ELSE lg[n].before)[lg[k].idx] = st(pre[lg[k].idx], lg[k].val)

\* the same of every exchange step of lg, its framing steps being fs
ExchangedIn(lg, fs, xs, from, to, io, res(_, _), st(_, _)) ==
    \A j \in fs \cup {0} :
        ExchangedSince(lg, xs, j, FramingAfter(fs, j), StateAfter(lg, from, j), to, io, res, st)

\* every exchange step of the call with steps lg, which took the state bytes
\* from `from` to `to` and left the caller's buffer io
Exchanged(lg, from, to, io, res(_, _), st(_, _)) ==
    ExchangedIn(lg, Framings(lg), ExchangeSteps(lg), from, to, io, res, st)

\* what C16 has the state byte become
StateXorInput(state, input) == XOR(state, input)

\* the input byte as it came
InputKept(state, input) == input

\* C16 as stated: each exchange step leaves (state byte before) XOR (input
\* byte) in the state and (state byte before) XOR (input byte) in the
\* buffer.
ExchangeXorsState ==
    [][Exchanged(log', meow.state, meow'.state, buf', StateXorInput, StateXorInput)]_vars

\* C16, amended: each exchange step leaves the original input byte in the
\* state and (state byte before) XOR (input byte) in the buffer, and then
\* advances the cursor.
ExchangeKeepsInput ==
    [][/\ Exchanged(log', meow.state, meow'.state, buf', StateXorInput, InputKept)
       /\ \A k \in ExchangeSteps(log') :
            IF k < Len(log')
            THEN log'[k + 1].idx = log'[k].idx + 1
            ELSE meow'.pos = log'[k].idx + 1]_vars

\* recv_enc has exchanged a buffer longer than the rate, on state bytes that
\* were not all zero
ExchangedAcrossBoundary ==
    /\ last.op = "recv_enc"
    /\ Len(buf) = MEOW_R + 1
    /\ status = "ok"
    /\ buf # last.arg
    /\ Cardinality(ExchangeSteps(log)) = MEOW_R + 1

\* the byte steps of lg, in order
ByteSteps(lg) == SelectSeq(lg, LAMBDA e : e.ev = "byte")

\* the number of payload bytes of the call op(arg)
PayloadLen(call) ==
    IF call.op \in {"ratchet", "ratchet_many"} THEN call.arg ELSE Len(call.arg)

\* 0 for the Initiator, 1 for the Responder
RoleBit(role) == CASE role = "Initiator" -> 0 [] role = "Responder" -> 1

\* the flag byte of the header of a call with these flags, by this role
HeaderFlags(flags, role) ==
    IF AND(flags, FLAG_T) # 0 THEN XOR(flags, RoleBit(role)) ELSE flags

\* how one call, with byte steps bytes, frames its header
HeaderStep(bytes) ==
    IF status' = "panic" THEN bytes = <<>>
    ELSE IF Begun.more THEN Len(bytes) = PayloadLen(last')
    ELSE /\ Len(bytes) = 2 + PayloadLen(last')
         /\ bytes[1] = ByteEv("absorb", meow.pos, meow.pos_begin)
         /\ bytes[2] = ByteEv("absorb", (meow.pos + 1) % MEOW_R, HeaderFlags(Begun.flags, meow'.role))
         /\ log'[2] = bytes[1]

\* C17: a non-continuing call absorbs two header bytes before any payload
\* byte: the pos_begin it found, then its flags, xored with the role bit
\* (0 Initiator, 1 Responder) if they hold the Transport flag; a continuing
\* call absorbs no header byte.
HeaderFramingOrder == [][HeaderStep(ByteSteps(log'))]_vars

\* a Responder has absorbed a header that straddles the rate boundary, the
\* flag byte with the role bit xored in
HeaderStraddled ==
    /\ status = "ok"
    /\ meow.role = "Responder"
    /\ ~log[1].more
    /\ AND(log[1].flags, FLAG_T) # 0
    /\ log[2].idx = MEOW_R - 1
    /\ log[3].ev = "F"
    /\ log[4] = ByteEv("absorb", 0, XOR(log[1].flags, 1))

\* the place in lg of its n-th byte step
ByteAt(lg, n) ==
    CHOOSE k \in 1..Len(lg) :
        /\ lg[k].ev = "byte"
        /\ Cardinality({j \in 1..(k - 1) : lg[j].ev = "byte"}) = n - 1

\* the last call was a non-continuing one with the Cipher flag
CipherBegun == status = "ok" /\ ~log[1].more /\ AND(log[1].flags, FLAG_C) # 0

\* the steps lg of a call that began a Cipher operation, its second header
\* byte being step h: one framing step follows the header, the forced one
\* unless the header ended on the rate boundary, and the payload starts at 0
MixedAfter(lg, h) ==
    /\ h < Len(lg)
    /\ lg[h + 1].ev = "F"
    /\ lg[h + 1].idx = (IF lg[h].idx = MEOW_R - 1 THEN MEOW_R ELSE lg[h].idx + 1)
    /\ IF h + 1 < Len(lg)
       THEN lg[h + 2].ev = "byte" /\ lg[h + 2].idx = 0
       ELSE meow.pos = 0

\* C18: in a non-continuing call with the Cipher flag a framing step runs
\* after the second header byte, and the first payload byte is processed
\* with pos = 0 and pos_begin = 0; the forced framing step is skipped only
\* when the header ended on the rate boundary, so that no framing step
\* follows another with no byte in between.
CipherStartsMixed ==
    /\ CipherBegun => MixedAfter(log, ByteAt(log, 2)) /\ meow.pos_begin = 0
    /\ \A k \in Framings(log) : k + 1 \notin Framings(log)

\* the header of a Cipher operation ended on the rate boundary: the cursor
\* framed, the forced step was skipped, and the payload began at byte 0
ForcedStepSkipped ==
    /\ CipherBegun
    /\ log[3].idx = MEOW_R - 1
    /\ log[4].ev = "F" /\ log[4].idx = MEOW_R
    /\ Len(log) > 4 /\ log[5].ev = "byte" /\ log[5].idx = 0

\* how pos_begin stands after a call in which no framing step ran, the
\* header of a non-continuing call having begun at the cursor of the state
\* before: marked at that offset plus `ahead`, and kept by a continuing call
BeginMarked(ahead) ==
    (status' = "ok" /\ Framings(log') = {}) =>
        meow'.pos_begin = IF Begun.more THEN meow.pos_begin ELSE meow.pos + ahead

\* C19 as stated: after a non-continuing operation has absorbed its header
\* and while no framing step has run, pos_begin is the rate offset at which
\* the header began.
BeginIsHeaderOffset == [][BeginMarked(0)]_vars

\* C19, amended: after a non-continuing operation has absorbed its header,
\* and while no framing step has run since the operation began, pos_begin is
\* one more than the rate offset at which the header began.
BeginIsHeaderOffsetPlusOne == [][BeginMarked(1)]_vars

\* an operation has begun in the middle of the rate and no framing step has
\* run since
BegunMidRate ==
    /\ status = "ok"
    /\ nops = 2
    /\ ~log[1].more
    /\ Framings(log) = {}
    /\ log[2].idx \in 1..(MEOW_R - 3)
    /\ meow.pos_begin = log[2].idx + 1

\* the squeeze steps among the steps of lg
SqueezeSteps(lg) == {k \in 1..Len(lg) : lg[k].ev = "byte" /\ lg[k].prim = "squeeze"}

\* the state byte as it was found
StateKept(state, input) == state

\* zero, whatever was there
Zeroed(state, input) == 0

\* the state bytes after the framing step that follows the header in lg
AfterHeader(lg, from) == StateAfter(lg, from, ByteAt(lg, 2) + 1)

\* how a call squeezes: every squeeze step hands out the state byte it found
\* and leaves 0 there; a non-continuing prf of n < 166 bytes returns bytes
\* 0..n-1 of the state as the forced framing step left it, and leaves those
\* bytes zero and pos = n
SqueezeStep(lg, n) ==
    /\ ExchangedIn(lg, Framings(lg), SqueezeSteps(lg), meow.state, meow'.state, buf',
                   StateKept, Zeroed)
    /\ (last'.op = "prf" /\ ~Begun.more /\ n < 166) =>
            /\ status' = "ok"
            /\ Len(buf') = n
            /\ \A i \in 0..(n - 1) :
                    meow'.state[i] = 0 /\ buf'[i + 1] = AfterHeader(lg, meow.state)[i]
            /\ meow'.pos = n

\* C21: each squeeze step of prf returns the state byte at pos and then sets
\* it to 0; after a non-continuing prf of n < 166 bytes the state bytes
\* 0..n-1 are zero, pos = n, and the bytes returned are those the state held
\* at 0..n-1 after the forced framing step.
SqueezeIsDestructive == [][SqueezeStep(log', Len(buf'))]_vars

\* a non-continuing prf has returned two bytes that were not both zero and
\* cleared them in the state
PrfCleared ==
    /\ status = "ok"
    /\ last.op = "prf" /\ ~last.more
    /\ Len(buf) = 2
    /\ buf # <<0, 0>>
    /\ meow.state[0] = 0 /\ meow.state[1] = 0
    /\ meow.pos = 2

\* how one call treats the latched flags: a non-continuing call latches the
\* caller's flags, a continuing call keeps what is latched, and a call that
\* continues with the latched flags is accepted and keeps the role
LatchStep ==
    /\ meow'.cur_flags = IF Begun.more THEN meow.cur_flags ELSE Begun.flags
    /\ (Begun.more /\ Begun.flags = meow.cur_flags) =>
            status' = "ok" /\ meow'.role = meow.role

\* the call that led to the next state continued with the latched flags
Continuing == Begun.more /\ Begun.flags = meow.cur_flags

\* C22 as stated: the latched flags are the caller's flags of the last
\* non-continuing operation, the meta_ad of new included; a continuation
\* with those flags is accepted by an Initiator and by a Responder and
\* leaves role, latched flags and pos_begin unchanged.
LatchedContext ==
    /\ meow.cur_flags = FLAG_M + FLAG_A
    /\ [][LatchStep /\ (Continuing => meow'.pos_begin = meow.pos_begin)]_vars

\* C22, amended: as stated, but a matching continuation leaves pos_begin
\* unchanged only if no framing step runs in it; if its payload reaches the
\* rate boundary, pos_begin is 0 afterwards.
LatchedContextUntilFramed ==
    /\ meow.cur_flags = FLAG_M + FLAG_A
    /\ [][LatchStep /\ (Continuing => meow'.pos_begin =
                            IF Framings(log') = {} THEN meow.pos_begin ELSE 0)]_vars

\* a Responder has continued its receiving operation: the latched flags are
\* the caller's, not the flags absorbed
ResponderContinued ==
    /\ status = "ok"
    /\ nops = 2
    /\ last.more
    /\ meow.role = "Responder"
    /\ AND(log[1].flags, FLAG_T) # 0
    /\ AND(log[1].flags, FLAG_I) # 0
    /\ meow.cur_flags = log[1].flags
    /\ Len(log) > 1

\* ------------------------------------------------------------ two parties
\* Two instances made with the same label run paired commands, as in
\* run_and_assert_commands: meow is meow0 and peer is meow1.

\* commands run by the two parties
MaxCmds == 2

\* a command; swap: meow0 is the sending side; flip: the <<byte, bit>> of the
\* tag that is flipped on the way, <<0, 0>> for none
Cmd(cmd, swap, meta, data, flip) ==
    [cmd |-> cmd, swap |-> swap, meta |-> meta, data |-> data, flip |-> flip]

NoFlip == <<0, 0>>

\* scratch.resize(len, 0)
Scratch(len) == Fill(0, len)

\* the bytes the receiver is handed
FlipBit(data, flip) ==
    IF flip = NoFlip THEN data ELSE [data EXCEPT ![flip[1]] = XOR(@, 2 ^ flip[2])]

\* the call the sending side of command c makes
Send(c, m) ==
    CASE c.cmd = "Clr" -> send_clr(m, c.data, FALSE)
      [] c.cmd = "Enc" -> send_enc(m, c.data, FALSE)
      [] c.cmd \in {"Mac", "BadMac"} ->
            IF c.meta THEN meta_send_mac(m, c.data) ELSE send_mac(m, c.data)

\* the call the receiving side of command c makes on the bytes it is handed
Recv(c, m, wire) ==
    CASE c.cmd = "Clr" -> recv_clr(m, wire, FALSE)
      [] c.cmd = "Enc" -> recv_enc(m, wire, FALSE)
      [] c.cmd \in {"Mac", "BadMac"} ->
            IF c.meta THEN meta_recv_mac(m, wire) ELSE recv_mac(m, wire)

\* the call both sides make alike
Alike(c, m) ==
    CASE c.cmd = "Ad" -> ad(m, c.data, FALSE)
      [] c.cmd = "Key" -> key(m, c.data, FALSE)
      [] c.cmd = "Prf" -> prf(m, c.data, FALSE)
      [] c.cmd = "Ratchet" -> ratchet(m)

\* the receiving call of command c on m, after the sending call ended in snd
Handed(c, m, snd) == Recv(c, m, FlipBit(snd.buf, c.flip))

\* the two calls of a command meow0 sends
Sent0(c, m1, snd) == [c0 |-> snd, c1 |-> Handed(c, m1, snd)]

\* the two calls of a command meow1 sends
Sent1(c, m0, snd) == [c0 |-> Handed(c, m0, snd), c1 |-> snd]

\* one command on the two instances: the contexts the two calls end in
Exec(m0, m1, c) ==
    IF c.cmd \in {"Ad", "Key", "Prf", "Ratchet"}
    THEN [c0 |-> Alike(c, m0), c1 |-> Alike(c, m1)]
    ELSE IF c.swap
    THEN Sent0(c, m1, Send(c, m0))
    ELSE Sent1(c, m0, Send(c, m1))

\* the lengths of PRF output and of tags
OutLens == {2, MEOW_R + 1}

\* meta, len of the MAC commands
MacCalls == ({FALSE} \X OutLens) \cup {<<TRUE, 2>>}

\* the bits flipped: every bit of a two-byte tag, and bits of the first byte,
\* of the last byte of the rate and of the byte after it in a long tag
Flips ==
    {<<2, <<i, b>>>> : i \in 1..2, b \in 0..7}
        \cup {<<MEOW_R + 1, <<i, b>>>> : i \in {1, MEOW_R, MEOW_R + 1}, b \in {0, 7}}

PairInit == \E protocol \in Labels : InitWith(protocol, new(protocol), new(protocol), NoRun)

\* the state after the two parties have run command c, their calls ending in e
Ran(c, e) ==
    /\ meow' = e.c0.m
    /\ buf' = e.c0.buf
    /\ ret' = e.c0.ret
    /\ log' = e.c0.log
    /\ peer' = e.c1.m
    /\ pbuf' = e.c1.buf
    /\ pret' = e.c1.ret
    /\ status' = IF e.c0.panic \/ e.c1.panic THEN "panic"
                 ELSE IF "Err" \in {e.c0.ret, e.c1.ret} THEN "rejected"
                 ELSE "ok"
    /\ out' = IF c.cmd = "Prf" THEN out \o e.c0.buf ELSE out
    /\ last' = [op |-> c.cmd, arg |-> c.data, more |-> FALSE,
                swap |-> c.swap, meta |-> c.meta, flip |-> c.flip]
    /\ nops' = nops + 1
    /\ commands' = [commands EXCEPT !.commands = Append(@, c)]

\* the two parties run command c
Paired(c) ==
    /\ status = "ok"
    /\ nops < MaxCmds
    /\ Ran(c, Exec(meow, peer, c))
    /\ UNCHANGED other

PAd == \E d \in Payloads : Paired(Cmd("Ad", FALSE, FALSE, d, NoFlip))

PKey == \E d \in Payloads : Paired(Cmd("Key", FALSE, FALSE, d, NoFlip))

PClr == \E swap \in BOOLEAN, d \in Payloads : Paired(Cmd("Clr", swap, FALSE, d, NoFlip))

PEnc == \E swap \in BOOLEAN, d \in CipherPayloads : Paired(Cmd("Enc", swap, FALSE, d, NoFlip))

PPrf == \E len \in OutLens : Paired(Cmd("Prf", FALSE, FALSE, Scratch(len), NoFlip))

PMac ==
    \E swap \in BOOLEAN, c \in MacCalls : Paired(Cmd("Mac", swap, c[1], Scratch(c[2]), NoFlip))

PBadMac ==
    \E swap \in BOOLEAN, f \in Flips : Paired(Cmd("BadMac", swap, FALSE, Scratch(f[1]), f[2]))

PRatchet == Paired(Cmd("Ratchet", FALSE, FALSE, <<>>, NoFlip))

PairNext == PAd \/ PKey \/ PClr \/ PEnc \/ PPrf \/ PMac \/ PBadMac \/ PRatchet

PairSpec == PairInit /\ [][PairNext]_vars

\* the buffer and the result of the receiving side of the last command
Received == IF last.swap THEN [buf |-> pbuf, ret |-> pret] ELSE [buf |-> buf, ret |-> ret]

\* the buffer of the sending side of the last command
Sent == IF last.swap THEN buf ELSE pbuf

\* C1: when one party has run send_enc on a message and the other, after
\* the same prior commands, recv_enc on the bytes send_enc produced, the
\* receiver's buffer equals the message.
EncRoundTrip == last.op = "Enc" => Received.buf = last.arg

\* both parties have keyed, and a message longer than the rate has been
\* encrypted to other bytes and decrypted
LongEncAfterKey ==
    /\ Len(commands.commands) = 2
    /\ commands.commands[1].cmd = "Key"
    /\ commands.commands[2].cmd = "Enc"
    /\ last.arg = Long
    /\ Sent # Long
    /\ Received.buf = Long

\* C2: a tag written by send_mac (meta_send_mac) on one party is accepted by
\* recv_mac (meta_recv_mac) on the other party after the same commands.
MacAccepted == last.op = "Mac" => Received.ret = "Ok"

\* a tag longer than the rate has been accepted after an earlier command
LongMacAccepted ==
    /\ Len(commands.commands) = 2
    /\ last.op = "Mac"
    /\ Len(last.arg) = MEOW_R + 1
    /\ Sent # last.arg
    /\ Received.ret = "Ok"

\* C3: recv_mac on a tag of the other party with one bit flipped returns
\* the MAC failure.
BadMacRejected == last.op = "BadMac" => Received.ret = "Err"

\* a tag with a bit flipped in the byte after the rate boundary has been refused
FlipPastBoundaryRejected ==
    /\ last.op = "BadMac"
    /\ last.flip[1] = MEOW_R + 1
    /\ Received.ret = "Err"

\* C5: after every command the two parties hold the same state bytes, pos
\* and pos_begin, and a prf command returns the same bytes to both.
PeersInSync ==
    status = "ok" =>
        /\ meow.state = peer.state
        /\ meow.pos = peer.pos
        /\ meow.pos_begin = peer.pos_begin
        /\ last.op = "Prf" => buf = pbuf

\* meow1 sent first and meow0 later, and a prf then agreed on both
SyncedWithRoles ==
    /\ Len(commands.commands) = 2
    /\ commands.commands[1].cmd \in {"Clr", "Enc", "Mac"} /\ ~commands.commands[1].swap
    /\ meow.role = "Responder"
    /\ peer.role = "Initiator"
    /\ last.op = "Prf"
    /\ buf = pbuf
    /\ buf # last.arg

\* the bytes of the receiver's buffer that are not zero after the exchange
NonZero == {i \in 1..Len(Received.buf) : Received.buf[i] # 0}

\* C11: recv_mac and meta_recv_mac never abort; they return the MAC failure
\* exactly when a byte of the buffer is non-zero after the exchange and
\* success exactly when every byte is zero; no other operation returns an
\* error value.
MacFailureIsValue ==
    /\ status # "panic"
    /\ IF last.op \in {"Mac", "BadMac"}
       THEN /\ Received.ret = IF NonZero # {} THEN "Err" ELSE "Ok"
            /\ (IF last.swap THEN ret ELSE pret) = "Unit"
       ELSE ret = "Unit" /\ pret = "Unit"

\* after an earlier command, recv_mac has returned the failure for a tag in
\* which one byte did not cancel, and neither party has aborted
MacFailureReturned ==
    /\ Len(commands.commands) = 2
    /\ last.op = "BadMac"
    /\ status = "rejected"
    /\ Cardinality(NonZero) = 1
    /\ Received.ret = "Err"

\* the one of the instances m (meow0) and p (meow1) that received
ReceiverOf(swap, m, p) == IF swap THEN p ELSE m

\* the one that sent
SenderOf(swap, m, p) == IF swap THEN m ELSE p

\* the tag the receiving side of the last command was handed
TagReceived == FlipBit(Sent, last.flip)

\* the flags recv_mac (meta_recv_mac) begins its operation with
RecvMacFlags(meta) == FLAG_I + FLAG_C + FLAG_T + (IF meta THEN FLAG_M ELSE 0)

\* the exchange steps xs of lg after step j and before the next framing step
\* n found the state bytes pre; each left in the buffer io the XOR of the
\* state byte it found and its input byte, and a state byte that stands in
\* relation rel to the byte it found and to its input byte
WrittenSince(lg, xs, j, n, pre, to, io, rel(_, _, _)) ==
    \A k \in {k \in xs : j < k /\ (n = 0 \/ k < n)} :
        /\ io[BufIndex(xs, k)] = XOR(pre[lg[k].idx], lg[k].val)
        /\ rel(pre[lg[k].idx], lg[k].val, (IF n = 0 THEN to ELSE lg[n].before)[lg[k].idx])

\* the same of every exchange step of lg, its framing steps being fs
WrittenIn(lg, fs, xs, from, to, io, rel(_, _, _)) ==
    \A j \in fs \cup {0} :
        WrittenSince(lg, xs, j, FramingAfter(fs, j), StateAfter(lg, from, j), to, io, rel)

\* the state byte is another than the one found
ByteChanged(found, input, left) == left # found

\* the state byte is the input byte, another than the one found exactly
\* when the input byte is
ByteReceived(found, input, left) == left = input /\ (left # found <=> input # found)

\* what a recv_mac leaves, whatever its result: rcv the receiver before the
\* call, aft after it, snd the sender after its send_mac, tag the bytes
\* handed over, io the receiver's buffer
RecvMacKept(rcv, aft, snd, tag, io, result) ==
    /\ aft.pos = Len(tag) % MEOW_R
    /\ Len(io) = Len(tag)
    /\ result = "Err" => aft.state # rcv.state /\ aft.state # snd.state

\* what the steps lg of a recv_mac by meow0 did: they absorbed the header
\* and then exchanged every byte of the tag
RecvMacSteps(lg, bytes, tag, rel(_, _, _)) ==
    /\ Len(bytes) = 2 + Len(tag)
    /\ bytes[1] = ByteEv("absorb", meow.pos, meow.pos_begin)
    /\ bytes[2] = ByteEv("absorb", (meow.pos + 1) % MEOW_R,
                         HeaderFlags(RecvMacFlags(last'.meta), meow'.role))
    /\ \A i \in 1..Len(tag) : bytes[2 + i] = ByteEv("exchange", (i - 1) % MEOW_R, tag[i])
    /\ WrittenIn(lg, Framings(lg), ExchangeSteps(lg), meow.state, meow'.state, buf', rel)

\* one MAC command of the two parties
RecvMacStep(rel(_, _, _)) ==
    last'.op \in {"Mac", "BadMac"} =>
        /\ RecvMacKept(ReceiverOf(last'.swap, meow, peer), ReceiverOf(last'.swap, meow', peer'),
                       SenderOf(last'.swap, meow', peer'), TagReceived', Received'.buf,
                       Received'.ret)
        /\ ~last'.swap => RecvMacSteps(log', ByteSteps(log'), TagReceived', rel)

\* C24 as stated: whatever the result of recv_mac, the header has been
\* absorbed, the cursor has advanced by the tag length and every state byte
\* at a tag position has been changed by its exchange step; after a failure
\* the state differs from the state before the call and from the sender's,
\* and the buffer holds the XOR of each received tag byte and the state byte
\* it met.
FailedMacChangesTagBytes == [][RecvMacStep(ByteChanged)]_vars

\* C24, amended: whatever the result of recv_mac, the header has been
\* absorbed, the cursor has advanced by the tag length and every state byte
\* at a tag position holds the received tag byte, changed exactly where that
\* byte is not the one expected; after a failure the state differs from the
\* state before the call and from the sender's, and the buffer holds the XOR
\* of each received tag byte and the state byte it met.
FailedMacKeepsReceivedTag == [][RecvMacStep(ByteReceived)]_vars

\* after an earlier command meow0 has refused a tag longer than the rate
\* with a bit flipped in its last byte: it has moved on as the sender has,
\* with another state
FailedMacNotRolledBack ==
    /\ Len(commands.commands) = 2
    /\ last.op = "BadMac"
    /\ ~last.swap
    /\ last.flip[1] = MEOW_R + 1
    /\ ret = "Err"
    /\ meow.pos = 1 /\ peer.pos = 1
    /\ Changed(meow.state, peer.state) = {0}
    /\ buf[MEOW_R + 1] = 2 ^ last.flip[2]

\* ------------------------------------------------------------- streaming
\* One instance makes an operation in two calls, op(X, FALSE) and
\* op(Y, TRUE), as test_streaming does; a second instance in the same state
\* makes the single call op(X \o Y, FALSE).  meow is the first, peer the second.

\* operations streamed one after the other
MaxStreams == 1

\* the operations with a `more` argument
StreamOps ==
    {"ad", "meta_ad", "key", "send_clr", "meta_send_clr", "recv_clr", "meta_recv_clr",
     "send_enc", "meta_send_enc", "recv_enc", "meta_recv_enc", "prf", "ratchet_many"}

\* the call of operation op; ratchet_many is given the length of data
Apply(op, m, data, more) ==
    CASE op = "ad" -> ad(m, data, more)
      [] op = "meta_ad" -> meta_ad(m, data, more)
      [] op = "key" -> key(m, data, more)
      [] op = "send_clr" -> send_clr(m, data, more)
      [] op = "meta_send_clr" -> meta_send_clr(m, data, more)
      [] op = "recv_clr" -> recv_clr(m, data, more)
      [] op = "meta_recv_clr" -> meta_recv_clr(m, data, more)
      [] op = "send_enc" -> send_enc(m, data, more)
      [] op = "meta_send_enc" -> meta_send_enc(m, data, more)
      [] op = "recv_enc" -> recv_enc(m, data, more)
      [] op = "meta_recv_enc" -> meta_recv_enc(m, data, more)
      [] op = "prf" -> prf(m, data, more)
      [] op = "ratchet_many" -> ratchet_many(m, Len(data), more)

\* the context after two calls, with the output of both
Joined(first, second) ==
    [second EXCEPT !.buf = first.buf \o second.buf,
                   !.log = first.log \o second.log,
                   !.panic = first.panic \/ second.panic]

\* the continuing call, on the instance the first call left
Continued(op, first, Y) == Joined(first, Apply(op, first.m, Y, TRUE))

\* op(X, FALSE) then op(Y, TRUE)
InTwo(op, m, X, Y) == Continued(op, Apply(op, m, X, FALSE), Y)

Three == <<17, 34, 51>>

\* a payload cut after its first k bytes
Split(d, k) == <<SubSeq(d, 1, k), SubSeq(d, k + 1, Len(d))>>

\* the splits: every cut of the short payloads, and the long payload cut
\* after its first byte and at the rate boundary
Splits ==
    UNION {{Split(d, k) : k \in 0..Len(d)} : d \in {Empty, Short, Three}}
        \cup {Split(Long, k) : k \in {1, MEOW_R}}

StreamInit == PairInit

\* the state after meow ended in context two and peer in context one
Streamed(op, X, Y, two, one) ==
    /\ meow' = two.m
    /\ buf' = two.buf
    /\ ret' = two.ret
    /\ log' = two.log
    /\ peer' = one.m
    /\ pbuf' = one.buf
    /\ pret' = one.ret
    /\ status' = IF two.panic \/ one.panic THEN "panic" ELSE "ok"
    /\ last' = [op |-> op, arg |-> X \o Y, more |-> TRUE, split |-> Len(X)]
    /\ nops' = nops + 1
    /\ UNCHANGED runVars

Stream ==
    /\ status = "ok"
    /\ nops < MaxStreams
    /\ \E op \in StreamOps, xy \in Splits :
            Streamed(op, xy[1], xy[2], InTwo(op, meow, xy[1], xy[2]),
                     Apply(op, peer, xy[1] \o xy[2], FALSE))

StreamNext == Stream

StreamSpec == StreamInit /\ [][StreamNext]_vars

\* C4: op(X, FALSE) then op(Y, TRUE) leaves the instance with the same
\* state bytes, pos, pos_begin, role and latched flags, and yields the same
\* output bytes, as the single call op(X \o Y, FALSE), for every streamable
\* operation and every split, empty parts included.
StreamingEquivalence ==
    last.op \in StreamOps => status = "ok" /\ meow = peer /\ buf = pbuf

\* an encryption longer than the rate, cut at the rate boundary, has given
\* the same ciphertext and the same instance as the single call
StreamedAcrossBoundary ==
    /\ last.op = "send_enc"
    /\ last.split = MEOW_R
    /\ Len(last.arg) = MEOW_R + 1
    /\ buf # last.arg
    /\ buf = pbuf
    /\ meow = peer

\* ------------------------------------------------------------------ fork
\* An instance is cloned, as test_authenticated_encryption does, and the same
\* calls are then made on the original (meow) and on the clone (peer).

\* calls made on the original, before and after the fork
MaxForkOps == 2

\* the operations without a `more` argument
OneShotOps == {"send_mac", "meta_send_mac", "recv_mac", "meta_recv_mac", "ratchet"}

\* a non-continuing call of any public operation
CallOp(op, m, data) ==
    CASE op \in StreamOps -> Apply(op, m, data, FALSE)
      [] op = "send_mac" -> send_mac(m, data)
      [] op = "meta_send_mac" -> meta_send_mac(m, data)
      [] op = "recv_mac" -> recv_mac(m, data)
      [] op = "meta_recv_mac" -> meta_recv_mac(m, data)
      [] op = "ratchet" -> ratchet(m)

ForkInit == Init

Forked == peer # NoInstance

\* the state after a call on the original alone
OriginalCalled(op, d, s) ==
    /\ meow' = s.m
    /\ buf' = s.buf
    /\ ret' = s.ret
    /\ log' = s.log
    /\ last' = [op |-> op, arg |-> d, more |-> FALSE]
    /\ nops' = nops + 1
    /\ UNCHANGED <<status, peerVars, runVars>>

\* a call before the fork
Before ==
    /\ ~Forked
    /\ nops < MaxForkOps
    /\ \E op \in StreamOps \cup OneShotOps, d \in Payloads :
            OriginalCalled(op, d, CallOp(op, meow, d))

\* let copy = meow.clone()
Fork ==
    /\ ~Forked
    /\ peer' = clone(meow)
    /\ pbuf' = <<>>
    /\ pret' = "Unit"
    /\ last' = [op |-> "clone", arg |-> <<>>, more |-> FALSE]
    /\ UNCHANGED <<meow, buf, ret, status, log, nops, runVars>>

\* the state after the same call on the original and on the clone
BothCalled(op, d, s, c) ==
    /\ meow' = s.m
    /\ buf' = s.buf
    /\ ret' = s.ret
    /\ log' = s.log
    /\ peer' = c.m
    /\ pbuf' = c.buf
    /\ pret' = c.ret
    /\ last' = [op |-> op, arg |-> d, more |-> FALSE]
    /\ nops' = nops + 1
    /\ UNCHANGED <<status, runVars>>

\* the same call on the original and on its clone
After ==
    /\ Forked
    /\ nops < MaxForkOps
    /\ \E op \in StreamOps \cup OneShotOps, d \in Payloads :
            BothCalled(op, d, CallOp(op, meow, d), CallOp(op, peer, d))

ForkNext == Before \/ Fork \/ After

ForkSpec == ForkInit /\ [][ForkNext]_vars

MaxSteps == 2

\* Just(Prf(32)), Just(Mac(32))
TestLen == 32

\* arb_command; Command::Mac is sent by meow0
TestCommands ==
    {Cmd("Ad", FALSE, FALSE, d, NoFlip) : d \in Payloads}
        \cup {Cmd("Clr", swap, FALSE, d, NoFlip) : swap \in BOOLEAN, d \in Payloads}
        \cup {Cmd("Enc", swap, FALSE, d, NoFlip) : swap \in BOOLEAN, d \in Payloads}
        \cup {Cmd("Prf", FALSE, FALSE, Scratch(TestLen), NoFlip),
              Cmd("Mac", TRUE, FALSE, Scratch(TestLen), NoFlip),
              Cmd("Ratchet", FALSE, FALSE, <<>>, NoFlip)}

\* the protocol strings of the second transcript
OtherLabels == Labels \cup {Fill(116, 13)}

\* a run before its first command
Started(protocol, m) ==
    [m0 |-> m, m1 |-> m, commands |-> Commands(protocol), out |-> <<>>]

OtherStarted(protocol) == Started(protocol, new(protocol).m)

TranscriptInit ==
    \E protocol \in Labels, second \in OtherLabels :
        InitWith(protocol, new(protocol), new(protocol), OtherStarted(second))

\* the first run takes a command
StepA ==
    /\ status = "ok"
    /\ Len(commands.commands) < MaxSteps
    /\ \E c \in TestCommands : Ran(c, Exec(meow, peer, c))
    /\ UNCHANGED other

\* run r after command c, the two calls ending in e
RanOther(r, c, e) ==
    [m0 |-> e.c0.m, m1 |-> e.c1.m,
     commands |-> [r.commands EXCEPT !.commands = Append(@, c)],
     out |-> IF c.cmd = "Prf" THEN r.out \o e.c0.buf ELSE r.out]

\* the second run takes a command
StepB ==
    /\ Len(other.commands.commands) < MaxSteps
    /\ \E c \in TestCommands : other' = RanOther(other, c, Exec(other.m0, other.m1, c))
    /\ UNCHANGED <<meow, buf, ret, status, log, last, nops, peerVars, commands, out>>

TranscriptNext == StepA \/ StepB

TranscriptSpec == TranscriptInit /\ [][TranscriptNext]_vars

\* C6: two transcripts that differ, at least one of them with PRF output,
\* have different PRF outputs.
TranscriptsDiverge ==
    (commands # other.commands /\ (out # <<>> \/ other.out # <<>>)) => out # other.out

\* ------------------------------------------------------------------- new
\* Instances are made with protocol strings of many lengths, each replacing
\* the one before.

\* instances made after the first
MaxNews == 1

\* lengths of protocol strings: none, short, up to the rate boundary with the
\* two header bytes, past it, and twice around the rate
NewLens ==
    {0, 1, 2, 13, MEOW_R - 4, MEOW_R - 3, MEOW_R - 2, MEOW_R - 1, MEOW_R,
     STATE_SIZE_U8 - 1, STATE_SIZE_U8, 2 * MEOW_R - 2, 2 * MEOW_R - 1}

NewBytes == {0, 1, 18, 76, 96, 116, 128, 170, 204, 255}

NewLabels == {Fill(b, n) : b \in NewBytes, n \in NewLens}

NewInit == InitWith(Empty, new(Empty), NoCall, NoRun)

\* the state after Meow::new(protocol) ended in context s
Created(protocol, s) ==
    /\ meow' = s.m
    /\ buf' = s.buf
    /\ ret' = s.ret
    /\ status' = IF s.panic THEN "panic" ELSE "ok"
    /\ log' = s.log
    /\ last' = [op |-> "new", arg |-> protocol, more |-> FALSE]
    /\ nops' = nops + 1
    /\ UNCHANGED <<peerVars, runVars>>

\* let meow = Meow::new(protocol)
Renew ==
    /\ nops < MaxNews
    /\ \E protocol \in NewLabels : Created(protocol, new(protocol))

NewNext == Renew

NewSpec == NewInit /\ [][NewNext]_vars

\* the 200 bytes [0x01, 168, 0x01, 0x00, 0x01, 0x60], the context string, zeros
HeaderBlock ==
    LET b == <<1, 168, 1, 0, 1, 96>> \o MEOW_CONTEXT \o Fill(0, 200 - 6 - Len(MEOW_CONTEXT))
    IN  Eval([i \in 0..199 |-> b[i + 1]])

\* an instance holding permute(HeaderBlock), with pos = pos_begin = 0
Permuted ==
    [state |-> permute(HeaderBlock), pos |-> 0, pos_begin |-> 0,
     role |-> "Undecided", cur_flags |-> 0]

\* permute(HeaderBlock) with the header bytes 0 and Meta+Application and then
\* the bytes of label xored in from index 0 on
LabelAbsorbed(label) ==
    LET P == permute(HeaderBlock)
        h == <<0, FLAG_M + FLAG_A>> \o label
    IN  [i \in 0..199 |-> IF i < Len(h) THEN XOR(P[i], h[i + 1]) ELSE P[i]]

\* C13: new(label) leaves the instance that a non-continuing meta_ad(label)
\* leaves when started on permute(b) with pos = pos_begin = 0, b being
\* [0x01, 168, 0x01, 0x00, 0x01, 0x60], the context string and zeros; the
\* role is Undecided, the latched flags are Meta+Application and
\* pos = (len(label) + 2) mod 166.
InitialStateFromNew ==
    /\ status = "ok"
    /\ meow = meta_ad(Permuted, last.arg, FALSE).m
    /\ Len(last.arg) + 2 < 166 => meow.state = LabelAbsorbed(last.arg)
    /\ log[1] = BeginEv(FLAG_M + FLAG_A, FALSE)
    /\ log[2] = ByteEv("absorb", 0, 0)
    /\ log[3] = ByteEv("absorb", 1, FLAG_M + FLAG_A)
    /\ meow.role = "Undecided"
    /\ meow.cur_flags = FLAG_M + FLAG_A
    /\ meow.pos = (Len(last.arg) + 2) % 166

\* an instance has been made with a label that went around the rate
NewWithLongLabel ==
    /\ nops = 1
    /\ Len(last.arg) = STATE_SIZE_U8
    /\ meow.pos = 36
    /\ \E k \in Steps : log[k].ev = "F"

\* -------------------------------------------------------------- begin_op
\* begin_op is called on its own, with flags no public operation passes,
\* among non-continuing calls of the public operations.

\* the flags begin_op is given: with the Keytree flag, alone, with the flags
\* of ad, of ratchet and of recv_clr, and the flags of ad without it
BeginFlags ==
    {FLAG_K, FLAG_K + FLAG_A, FLAG_K + FLAG_C, FLAG_K + FLAG_I + FLAG_A + FLAG_T, FLAG_A}

\* self.begin_op(flags, more)
Begin ==
    \E flags \in BeginFlags, more \in BOOLEAN :
        Done("begin_op", flags, more, begin_op(Call(meow, <<>>), flags, more))

\* a non-continuing call of a public operation
Called ==
    \E op \in StreamOps \cup OneShotOps, d \in Payloads :
        Done(op, d, FALSE, CallOp(op, meow, d))

BeginNext == Begin \/ Called

BeginSpec == Init /\ [][BeginNext]_vars

\* the last call had the Keytree flag among its flags
KeytreeAsked == AND(log[1].flags, FLAG_K) # 0

MaxLabels == 1

\* n bytes that differ from one another
Ramp(n) == SubSeq([i \in 1..n |-> (7 * i + 3) % 256], 1, n)

\* lengths of the label and the continuation together: short, up to the
\* rate boundary with the two header bytes, and past it
JoinedLens ==
    {0, 1, 2, 3, 5, MEOW_R - 4, MEOW_R - 3, MEOW_R - 2, MEOW_R - 1, MEOW_R, MEOW_R + 1,
     STATE_SIZE_U8}

\* where the bytes are cut into label and continuation
Cuts(n) == {k \in {0, 1, 2, MEOW_R - 3, MEOW_R - 2, n - 2, n - 1, n} : 0 <= k /\ k <= n}

LabelSplits ==
    UNION {{Split(d, k) : k \in Cuts(Len(d))} :
            d \in {Ramp(n) : n \in JoinedLens} \cup {Fill(76, n) : n \in JoinedLens}}

LabelInit == PairInit

\* Meow::new(L) and then meta_ad(D, true); Meow::new(L \o D)
Relabel ==
    /\ nops < MaxLabels
    /\ \E xy \in LabelSplits :
            Streamed("new", xy[1], xy[2], meta_ad(new(xy[1]).m, xy[2], TRUE),
                     new(xy[1] \o xy[2]))

LabelNext == Relabel

LabelSpec == LabelInit /\ [][LabelNext]_vars

\* C23: meta_ad(D, true) right after new(L) is accepted and leaves the
\* instance that new(L \o D) leaves: the same state bytes, pos, pos_begin,
\* role and latched flags.
LabelContinued == status = "ok" /\ meow = peer

\* a label has been continued across the rate boundary and the instance is
\* that of the whole label
LabelContinuedAcrossBoundary ==
    /\ nops = 1
    /\ last.split = MEOW_R - 3
    /\ Len(last.arg) = STATE_SIZE_U8
    /\ meow = peer
    /\ meow.pos = 36

\* --------------------------------------------------- mirrored transcripts
\* Two transcripts are each run by two parties, as in test_commands; the
\* second (other) is the first with the sending side of every transport
\* command swapped.

\* commands of a mirrored transcript
MaxMirrored == 2

\* the commands of the two parties, a tag being sent by either side
MirrorCommands ==
    {Cmd("Ad", FALSE, FALSE, Short, NoFlip), Cmd("Key", FALSE, FALSE, Short, NoFlip),
     Cmd("Ratchet", FALSE, FALSE, <<>>, NoFlip)}
        \cup {Cmd("Clr", swap, FALSE, Short, NoFlip) : swap \in BOOLEAN}
        \cup {Cmd("Enc", swap, FALSE, d, NoFlip) : swap \in BOOLEAN, d \in CipherPayloads}
        \cup {Cmd("Mac", swap, c[1], Scratch(c[2]), NoFlip) : swap \in BOOLEAN, c \in MacCalls}
        \cup {Cmd("Prf", FALSE, FALSE, Scratch(len), NoFlip) : len \in OutLens}

\* command c with the other side sending
Mirror(c) == IF c.cmd \in {"Clr", "Enc", "Mac"} THEN [c EXCEPT !.swap = ~@] ELSE c

MirrorInit ==
    \E protocol \in Labels :
        InitWith(protocol, new(protocol), new(protocol), OtherStarted(protocol))

\* the first run takes a command and the second run the mirrored one
Mirrored ==
    /\ status = "ok"
    /\ Len(commands.commands) < MaxMirrored
    /\ \E c \in MirrorCommands :
            /\ Ran(c, Exec(meow, peer, c))
            /\ other' = RanOther(other, Mirror(c), Exec(other.m0, other.m1, Mirror(c)))

MirrorNext == Mirrored

MirrorSpec == MirrorInit /\ [][MirrorNext]_vars

\* the instances a and b hold the same state bytes, pos and pos_begin
SameSponge(a, b) == a.state = b.state /\ a.pos = b.pos /\ a.pos_begin = b.pos_begin

\* one command and its mirror image
MirrorStep ==
    /\ status' = "ok"
    /\ SameSponge(meow', other'.m0)
    /\ SameSponge(peer', other'.m1)
    /\ out' = other'.out
    /\ (meow.role = "Undecided" /\ meow'.role # "Undecided") =>
            /\ last'.op \in {"Clr", "Enc", "Mac"}
            /\ AND(Begun.flags, FLAG_I) # 0 <=> ~last'.swap
            /\ AND(ByteSteps(log')[2].val, FLAG_I) = 0
            /\ AND(ByteSteps(log')[2].val, FLAG_T) # 0

MaxTagOps == 2

\* the buffers of the calls: a tag of no bytes, and two bytes
TagPayloads == {Empty, Short}

TagInit == PairInit

\* the state after a call of meow0 ended in context s
TagCalled(op, d, s) ==
    /\ meow' = s.m
    /\ buf' = s.buf
    /\ ret' = s.ret
    /\ log' = s.log
    /\ status' = IF s.panic THEN "panic" ELSE IF s.ret = "Err" THEN "rejected" ELSE "ok"
    /\ last' = [op |-> op, arg |-> d, more |-> FALSE]
    /\ nops' = nops + 1
    /\ UNCHANGED <<peerVars, runVars>>

\* a call of any public operation, also after a tag was refused
Alone ==
    /\ nops < MaxTagOps
    /\ \E op \in StreamOps \cup OneShotOps, d \in TagPayloads :
            TagCalled(op, d, CallOp(op, meow, d))

TagNext == Alone

TagSpec == TagInit /\ [][TagNext]_vars

\* C26: recv_mac and meta_recv_mac called with a buffer of no bytes return
\* success, whatever calls the instance and its peer made before.
EmptyTagVerifies ==
    (last.op \in {"recv_mac", "meta_recv_mac"} /\ last.arg = Empty) =>
        ret = "Ok" /\ status = "ok" /\ buf = Empty

\* after a call its peer never made, the instance has accepted a tag of no
\* bytes
EmptyTagAccepted ==
    /\ nops = 2
    /\ last.op = "recv_mac"
    /\ last.arg = Empty
    /\ ret = "Ok"
    /\ meow.state # peer.state
    /\ meow.role = "Responder"

\* ------------------------------------------------------------ the cursor
\* Instances made with protocol strings that leave the cursor at the start
\* of the rate, two bytes before its end and one byte before its end; every
\* public operation is then called, on buffers of no bytes, of two bytes and
\* of one byte more than the rate.

\* calls made on the instance
MaxCursorOps == 1

\* new leaves pos = (2 + length) % MEOW_R
CursorLabels == {Fill(76, n) : n \in {MEOW_R - 2, MEOW_R - 4, MEOW_R - 3}}

CursorPayloads == {Empty, Short, Long}

CursorInit == \E protocol \in CursorLabels : InitWith(protocol, new(protocol), NoCall, NoRun)

\* a call of any public operation
Move ==
    /\ nops < MaxCursorOps
    /\ \E op \in StreamOps \cup OneShotOps, d \in CursorPayloads :
            TagCalled(op, d, CallOp(op, meow, d))

CursorNext == Move

CursorSpec == CursorInit /\ [][CursorNext]_vars

\* the largest value of a u8
U8_MAX == 255

\* C27: pos and pos_begin never exceed 166; pos + 1 fits in 8 bits wherever
\* pos_begin = pos + 1 and pos += 1 are computed (at the cursor a
\* non-continuing call starts with, and at every byte a primitive touched);
\* every state index used (pos at a byte step; pos, pos + 1 and 167 at a
\* framing step) is below 200.
NoOverflow ==
    /\ meow.pos <= MEOW_R
    /\ meow.pos_begin <= MEOW_R
    /\ (status # "panic" /\ ~log[1].more) =>
            /\ log[2].ev = "byte"
            /\ log[2].idx + 1 <= U8_MAX
            /\ log[2].val <= MEOW_R
    /\ \A k \in Steps :
        /\ log[k].ev = "byte" =>
                /\ log[k].idx + 1 <= U8_MAX
                /\ log[k].idx + 1 <= MEOW_R
                /\ log[k].idx < STATE_SIZE_U8
        /\ log[k].ev = "F" =>
                /\ log[k].idx <= MEOW_R
                /\ log[k].val <= MEOW_R
                /\ log[k].idx + 1 < STATE_SIZE_U8
                /\ MEOW_R + 1 < STATE_SIZE_U8

\* a call that began at the last byte of the rate marked pos_begin = 166 and
\* framed with pos = 166, on the state bytes 166 and 167
BegunAtLastByte ==
    /\ nops = 1
    /\ status = "ok"
    /\ ~log[1].more
    /\ log[2].idx = MEOW_R - 1
    /\ log[3].ev = "F"
    /\ log[3].idx = MEOW_R
    /\ log[3].val = MEOW_R

====
